---------------------------- MODULE Spec2Model ----------------------------
(***************************************************************************)
(* Model of src/ffi/connection.rs of picoquic-rs: the Connection handle    *)
(* over an engine-owned picoquic_cnx_t, the stream id generator and the    *)
(* stable ConnectionIter.                                                  *)
(*                                                                         *)
(* Five specifications share the module, each moving its own variables:    *)
(*   SpecStreamId  calls of Connection::generate_stream_id                 *)
(*   SpecNew       Connection::new and Connection::delete on one engine    *)
(*   SpecCnx       one connection object: its state, error codes and       *)
(*                 pending data, and the queries of the handle on it       *)
(*   SpecIter      ConnectionIter, with the calls against the engine       *)
(*                 context serialized                                      *)
(*   SpecRace      ConnectionIter::new with the engine reordering its      *)
(*                 list between two steps of the first/next walk           *)
(***************************************************************************)
EXTENDS Integers, Sequences, FiniteSets, TLC

(***************************************************************************)
(* Unsigned 64 bit integers.                                               *)
(* A value is the set of the positions of its 1 bits: 5 is {0, 2}.  An     *)
(* exact result that does not fit holds positions >= W; Trunc drops them,  *)
(* as the machine does.                                                    *)
(***************************************************************************)

\* width of next_id and of stream::Id (u64)
W == 64

\* counters 0..MaxCounter are drawn in full, next to the ones near 2^62, 2^64
MaxCounter == 2

\* bits needed to write the small naturals the model converts
SmallBits == 8

U64Bits == 0..(W - 1)

RECURSIVE Pow2(_)
Pow2(i) == IF i = 0 THEN 1 ELSE 2 * Pow2(i - 1)

\* the bit set of a natural below 2^SmallBits
FromNat(k) == {i \in 0..(SmallBits - 1) : (k \div Pow2(i)) % 2 = 1}

RECURSIVE ToNat(_)
\* the natural a bit set below 2^30 stands for
ToNat(s) == IF s = {} THEN 0
            ELSE LET i == CHOOSE j \in s : TRUE IN Pow2(i) + ToNat(s \ {i})

Trunc(s) == s \cap U64Bits

\* s + 1, exact: the lowest clear bit is set and the bits below it cleared
AddOne(s) ==
    LET k == CHOOSE j \in 0..W : j \notin s /\ \A i \in 0..(j - 1) : i \in s
    IN  (s \ (0..(k - 1))) \cup {k}

\* s << n, exact
ShlExact(s, n) == {i + n : i \in s}

\* s << n on a u64: the bits shifted out are lost, in every build
Shl(s, n) == Trunc(ShlExact(s, n))

BitOr(a, b) == a \cup b

Roles == {TRUE, FALSE}
StreamTypes == {"Bidirectional", "Unidirectional"}

\* id |= 2 for a unidirectional stream
SetTypeBit(id, stype) ==
    IF stype = "Unidirectional" THEN BitOr(id, FromNat(2)) ELSE id

\* id |= 1 for the server
SetRoleBit(id, is_client) ==
    IF ~is_client THEN BitOr(id, FromNat(1)) ELSE id

\* Connection::generate_stream_id.  next_id + 1 panics on overflow when the
\* build checks overflow and wraps otherwise; the shift never panics.
generate_stream_id(next_id, is_client, stype, checks) ==
    LET sum == AddOne(next_id)
    IN  IF ~(sum \subseteq U64Bits) /\ checks
        THEN [panicked |-> TRUE, id |-> {}]
        ELSE [panicked |-> FALSE,
              id |-> SetTypeBit(SetRoleBit(Shl(Trunc(sum), 2), is_client), stype)]

\* 4 * (n + 1) + (0 | 1) + (0 | 2) over the naturals
ExactId(next_id, is_client, stype) ==
    SetTypeBit(SetRoleBit(ShlExact(AddOne(next_id), 2), is_client), stype)

HighBits == {W - 2, W - 1}

\* the counters the calls draw: 0..MaxCounter and 2^62 - 1, each alone and
\* with bit 62 and bit 63 set (so 2^62, 2^63 and 2^64 - 1 are among them)
NextIds ==
    {lo \cup hi : lo \in {FromNat(k) : k \in 0..MaxCounter} \cup {0..(W - 3)},
                  hi \in SUBSET HighBits}

NoCall == [made |-> FALSE, next_id |-> {}, is_client |-> TRUE,
           stype |-> "Bidirectional", panicked |-> FALSE, id |-> {}]


(***************************************************************************)
(* The Connection handle.                                                  *)
(***************************************************************************)

\* ptr::null_mut(): what the engine returns when it creates nothing
NULL == 0

\* connection objects the engine allocates in one run
MaxAlloc == 3

\* the value the engine's header gives PICOQUIC_TLS_HANDSHAKE_FAILED
PICOQUIC_TLS_HANDSHAKE_FAILED == 513

\* raw codes the engine reports: none, the recognized one and its neighbours
ErrorCodes == {0, 1, PICOQUIC_TLS_HANDSHAKE_FAILED - 1,
               PICOQUIC_TLS_HANDSHAKE_FAILED}

\* the states of picoquic_state_enum this layer meets
CnxStates == {"client_init", "server_init", "client_ready", "server_ready",
              "disconnecting", "disconnected"}

picoquic_state_client_ready == "client_ready"
picoquic_state_server_ready == "server_ready"
picoquic_state_disconnected == "disconnected"

\* what the engine has queued for a connection
Pendings == {"none", "ack", "stream"}

\* destination addresses: the octets of an IPv4 or the segments of an IPv6
\* address, and a port
Ips == { <<0, 0, 0, 0>>, <<0, 0, 0, 1>>, <<127, 0, 0, 1>>,
         <<0, 0, 0, 0, 0, 0, 0, 0>>, <<0, 0, 0, 0, 0, 0, 0, 1>>,
         <<0, 0, 0, 0, 0, 65535, 0, 0>> }
Ports == {0, 12345}
SocketAddrs == [ip : Ips, port : Ports]

\* IpAddr::is_unspecified: 0.0.0.0 or ::
is_unspecified(ip) == \A i \in DOMAIN ip : ip[i] = 0

\* picoquic_create_client_cnx as Connection::new sees it: the engine returns a
\* new object or null.  Objects are numbered in the order of their allocation;
\* after MaxAlloc of them the engine only fails.
picoquic_create_client_cnx(n_allocated) ==
    {NULL} \cup (IF n_allocated < MaxAlloc THEN {n_allocated + 1} ELSE {})

\* the engine puts a new connection at the head of its list
Insert(list, cnx) == <<cnx>> \o list

\* a null from the engine is asked for a second time
MutNewRetries(list, server_addr, ret) ==
    IF is_unspecified(server_addr.ip)
    THEN [outcome |-> "panic", kind |-> "server address must not be unspecified!",
          cnx |-> NULL, create_calls |-> 0, list |-> list]
    ELSE IF ret = NULL
    THEN [outcome |-> "Err", kind |-> "Unknown", cnx |-> NULL,
          create_calls |-> 2, list |-> list]
    ELSE [outcome |-> "Ok", kind |-> "", cnx |-> ret, create_calls |-> 1,
          list |-> Insert(list, ret)]

\* the address is looked at after the engine has created the connection
MutNewChecksLate(list, server_addr, ret) ==
    IF is_unspecified(server_addr.ip)
    THEN [outcome |-> "panic", kind |-> "server address must not be unspecified!",
          cnx |-> NULL, create_calls |-> 1,
          list |-> IF ret = NULL THEN list ELSE Insert(list, ret)]
    ELSE IF ret = NULL
    THEN [outcome |-> "Err", kind |-> "Unknown", cnx |-> NULL,
          create_calls |-> 1, list |-> list]
    ELSE [outcome |-> "Ok", kind |-> "", cnx |-> ret, create_calls |-> 1,
          list |-> Insert(list, ret)]

\* Connection::new against an engine whose connection list is `list`, where ret
\* is what the engine's create returns when it is called.  The result is what
\* the caller gets (outcome, kind, cnx), how often the engine was asked to
\* create and the engine's list afterwards.
Connection_new(list, server_addr, ret) ==
    IF is_unspecified(server_addr.ip)
    THEN [outcome |-> "panic", kind |-> "server address must not be unspecified!",
          cnx |-> NULL, create_calls |-> 0, list |-> list]
    ELSE IF ret = NULL
    THEN [outcome |-> "Err", kind |-> "Unknown", cnx |-> NULL,
          create_calls |-> 1, list |-> list]
    ELSE [outcome |-> "Ok", kind |-> "", cnx |-> ret, create_calls |-> 1,
          list |-> Insert(list, ret)]

MutIsDisconnectedBug(state) ==
    state \in {"disconnecting", picoquic_state_disconnected,
               picoquic_state_client_ready}

\* Connection::is_disconnected on a connection the engine reports in `state`
is_disconnected(state) == state = picoquic_state_disconnected

\* Connection::is_ready
is_ready(state) ==
    state = picoquic_state_client_ready \/ state = picoquic_state_server_ready

\* error_code as u32: the engine's code is narrower, the cast keeps its value
AsU32(error_code) == error_code

MutErrorPrefersRemote(local, remote) ==
    LET error_code == IF remote # 0 THEN remote ELSE local
    IN  IF error_code = 0
        THEN [some |-> FALSE, error_code |-> 0]
        ELSE [some |-> TRUE, error_code |-> error_code]

\* Connection::error on a connection whose picoquic_get_local_error and
\* picoquic_get_remote_error give local and remote: None, or the closure, which
\* is its captured error_code
Connection_error(local, remote) ==
    LET error_code == IF local # 0 THEN local ELSE remote
    IN  IF error_code = 0
        THEN [some |-> FALSE, error_code |-> 0]
        ELSE [some |-> TRUE, error_code |-> error_code]

\* a call of the closure Connection::error returned
InvokeClosure(closure) ==
    IF AsU32(closure.error_code) = PICOQUIC_TLS_HANDSHAKE_FAILED
    THEN "TLSHandshakeError"
    ELSE "Unknown"

\* largest buffer handed to create_and_prepare_packet
MaxBuf == 2

\* Packet::create: the engine allocates the packet, or fails
Packet_create(create_ok) ==
    IF create_ok THEN [ok |-> TRUE, length |-> 0] ELSE [ok |-> FALSE, length |-> 0]

\* Packet::prepare: the engine writes `written` bytes of what is pending into
\* the buffer, or fails (a buffer too small for what is pending, a fault)
Packet_prepare(packet, prepare_ok, written) ==
    IF prepare_ok
    THEN [ok |-> TRUE, size |-> written, packet |-> [packet EXCEPT !.length = written]]
    ELSE [ok |-> FALSE, size |-> 0, packet |-> packet]

\* Packet::contains_data
Packet_contains_data(packet) == packet.length > 0

\* picoquic_prepare_packet, as Packet::prepare sees it: the engine fails (a
\* fault, a buffer too small for what is pending), or writes nothing when
\* nothing is pending and else at least one byte and at most the buffer
PrepareOutcomes(pend, buflen) ==
    {[ok |-> FALSE, written |-> 0]}
    \cup {[ok |-> TRUE, written |-> w] :
            w \in IF pend = "none" THEN {0} ELSE 1..buflen}

\* the size is returned whether or not the packet holds data
MutPacketNoCheck(create_ok, prepare_ok, written) ==
    LET packet == Packet_create(create_ok)
        prep == Packet_prepare(packet, prepare_ok, written)
    IN  IF ~packet.ok \/ ~prep.ok THEN [kind |-> "Err", size |-> 0]
        ELSE [kind |-> "Some", size |-> prep.size]

\* Connection::create_and_prepare_packet
create_and_prepare_packet(create_ok, prepare_ok, written) ==
    LET packet == Packet_create(create_ok)
    IN  IF ~packet.ok THEN [kind |-> "Err", size |-> 0]
        ELSE LET prep == Packet_prepare(packet, prepare_ok, written)
             IN  IF ~prep.ok THEN [kind |-> "Err", size |-> 0]
                 ELSE IF Packet_contains_data(prep.packet)
                      THEN [kind |-> "Some", size |-> prep.size]
                      ELSE [kind |-> "None", size |-> 0]

(***************************************************************************)
(* The engine's connection list and ConnectionIter.                        *)
(***************************************************************************)

Range(s) == {s[i] : i \in DOMAIN s}

IndexOf(s, x) == CHOOSE i \in DOMAIN s : s[i] = x

\* picoquic_get_first_cnx: the head of the engine's list, or null
picoquic_get_first_cnx(list) == IF list = <<>> THEN NULL ELSE Head(list)

\* picoquic_get_next_cnx: the connection linked after cnx, or null
picoquic_get_next_cnx(list, cnx) ==
    LET i == IndexOf(list, cnx)
    IN  IF i = Len(list) THEN NULL ELSE list[i + 1]

\* the engine moves the i-th connection of its list to the head
MoveToHead(list, i) ==
    <<list[i]>> \o SubSeq(list, 1, i - 1) \o SubSeq(list, i + 1, Len(list))

\* the engine unlinks cnx
Unlink(list, cnx) ==
    LET i == IndexOf(list, cnx)
    IN  SubSeq(list, 1, i - 1) \o SubSeq(list, i + 1, Len(list))

VARIABLES
    \* Connection::generate_stream_id
    overflow_checks,   \* whether the build checks arithmetic overflow
    call,              \* the last call of generate_stream_id and its result
    prev,              \* the call before it
    \* the engine context
    cnx_list,          \* the engine's connection list, head first
    allocated,         \* connection objects the engine has allocated so far
    \* Connection::new
    new_call,          \* the last call of Connection::new and its result
    \* one connection object and the handle on it
    cnx_state,         \* what picoquic_get_cnx_state reports
    local_error,       \* what picoquic_get_local_error reports
    remote_error,      \* what picoquic_get_remote_error reports
    pending,           \* what the engine has queued to send
    closure,           \* what the last Connection::error returned, and the
                       \* codes the engine reported when it was called
    last_call,         \* the last call on the handle and its result
    \* ConnectionIter
    pc,                \* "idle", "walking" (inside ConnectionIter::new), "iterating"
    current,           \* the walk's current pointer
    vec,               \* the vector the walk fills, then the iterator's buffer
    iter_pos,          \* entries the iterator has handed out
    yielded,           \* what next() has returned so far, in order
    ended,             \* next() has returned None
    list_at_start,     \* the engine's list when the walk began
    disturbed          \* the engine reordered its list during the walk

svars == <<overflow_checks, call, prev>>
evars == <<cnx_list, allocated>>
nvars == <<new_call>>
hvars == <<cnx_state, local_error, remote_error, pending, closure, last_call>>
ivars == <<pc, current, vec, iter_pos, yielded, ended, list_at_start, disturbed>>
vars == <<svars, evars, nvars, hvars, ivars>>

NoNewCall == [made |-> FALSE]
NoClosure == [some |-> FALSE, error_code |-> 0, local |-> 0, remote |-> 0]

StreamInit ==
    /\ call = NoCall
    /\ prev = NoCall

EngineInit ==
    /\ cnx_list = <<>>
    /\ allocated = 0

NewInit == new_call = NoNewCall

HandleInit ==
    /\ cnx_state \in CnxStates
    /\ local_error = 0
    /\ remote_error = 0
    /\ pending = "none"
    /\ closure = NoClosure
    /\ last_call = [op |-> "none"]

IterInit ==
    /\ pc = "idle"
    /\ current = NULL
    /\ vec = <<>>
    /\ iter_pos = 0
    /\ yielded = <<>>
    /\ ended = FALSE
    /\ list_at_start = <<>>
    /\ disturbed = FALSE

(***************************************************************************)
(* SpecStreamId                                                            *)
(***************************************************************************)

GenerateStreamId ==
    /\ \E n \in NextIds, c \in Roles, t \in StreamTypes :
        LET r == generate_stream_id(n, c, t, overflow_checks)
        IN  /\ call' = [made |-> TRUE, next_id |-> n, is_client |-> c,
                        stype |-> t, panicked |-> r.panicked, id |-> r.id]
            /\ prev' = call
    /\ UNCHANGED <<overflow_checks, evars, nvars, hvars, ivars>>

InitStreamId ==
    /\ overflow_checks \in BOOLEAN
    /\ StreamInit /\ EngineInit /\ NewInit /\ HandleInit /\ IterInit
    /\ cnx_state = "client_init"

SpecStreamId == InitStreamId /\ [][GenerateStreamId]_vars

(***************************************************************************)
(* SpecNew: Connection::new and Connection::delete against one engine      *)
(* context.  A panic ends the run.                                         *)
(***************************************************************************)

Running == ~(new_call.made /\ new_call.outcome = "panic")

ConnectionNew ==
    /\ Running
    /\ \E server_addr \in SocketAddrs, ret \in picoquic_create_client_cnx(allocated) :
        LET r == Connection_new(cnx_list, server_addr, ret)
        IN  /\ new_call' = [made |-> TRUE, server_addr |-> server_addr,
                            list_before |-> cnx_list, engine_ret |-> ret,
                            outcome |-> r.outcome, kind |-> r.kind,
                            cnx |-> r.cnx, create_calls |-> r.create_calls]
            /\ cnx_list' = r.list
            /\ allocated' = IF r.list = cnx_list THEN allocated ELSE allocated + 1
    /\ UNCHANGED <<svars, hvars, ivars>>

\* Connection::delete on a handle of a live connection
ConnectionDelete ==
    /\ Running
    /\ \E cnx \in Range(cnx_list) : cnx_list' = Unlink(cnx_list, cnx)
    /\ UNCHANGED <<allocated, svars, nvars, hvars, ivars>>

InitNew ==
    /\ overflow_checks = FALSE
    /\ StreamInit /\ EngineInit /\ NewInit /\ HandleInit /\ IterInit
    /\ cnx_state = "client_init"

SpecNew == InitNew /\ [][ConnectionNew \/ ConnectionDelete]_vars

(***************************************************************************)
(* SpecCnx: one connection object of the engine and the handle on it       *)
(* (Connection::from, or the result of Connection::new).                   *)
(***************************************************************************)

\* the handshake completes
EngineReady ==
    /\ cnx_state \in {"client_init", "server_init"}
    /\ cnx_state' = IF cnx_state = "client_init" THEN picoquic_state_client_ready
                    ELSE picoquic_state_server_ready
    /\ UNCHANGED <<local_error, remote_error, pending, closure, last_call,
                   svars, evars, nvars, ivars>>

\* Connection::close: the engine starts closing a ready connection and
\* drops one that is not ready yet
ConnectionClose ==
    /\ cnx_state # picoquic_state_disconnected
    /\ cnx_state' = IF is_ready(cnx_state) THEN "disconnecting"
                    ELSE picoquic_state_disconnected
    /\ UNCHANGED <<local_error, remote_error, pending, closure, last_call,
                   svars, evars, nvars, ivars>>

\* the closing handshake ends, or the connection times out
EngineDisconnect ==
    /\ cnx_state # picoquic_state_disconnected
    /\ cnx_state' = picoquic_state_disconnected
    /\ UNCHANGED <<local_error, remote_error, pending, closure, last_call,
                   svars, evars, nvars, ivars>>

\* the engine records a local or a remote error code
EngineError ==
    /\ \E code \in ErrorCodes :
        \/ local_error' = code /\ UNCHANGED remote_error
        \/ remote_error' = code /\ UNCHANGED local_error
    /\ UNCHANGED <<cnx_state, pending, closure, last_call,
                   svars, evars, nvars, ivars>>

\* the engine queues an acknowledgement or stream data
EngineQueue ==
    /\ \E p \in Pendings \ {"none"} : pending' = p
    /\ UNCHANGED <<cnx_state, local_error, remote_error, closure, last_call,
                   svars, evars, nvars, ivars>>

CallError ==
    /\ LET r == Connection_error(local_error, remote_error)
       IN  /\ closure' = [some |-> r.some, error_code |-> r.error_code,
                          local |-> local_error, remote |-> remote_error]
           /\ last_call' = [op |-> "error"]
    /\ UNCHANGED <<cnx_state, local_error, remote_error, pending,
                   svars, evars, nvars, ivars>>

\* the caller invokes the closure it was given
CallClosure ==
    /\ closure.some
    /\ last_call' = [op |-> "closure", produced |-> InvokeClosure(closure)]
    /\ UNCHANGED <<cnx_state, local_error, remote_error, pending, closure,
                   svars, evars, nvars, ivars>>

CallPrepare ==
    /\ \E buflen \in 0..MaxBuf, create_ok \in BOOLEAN :
      \E prep \in PrepareOutcomes(pending, buflen) :
        LET r == create_and_prepare_packet(create_ok, prep.ok, prep.written)
        IN  /\ last_call' = [op |-> "prepare", create_ok |-> create_ok,
                             prepare_ok |-> prep.ok, pending |-> pending,
                             written |-> IF create_ok THEN prep.written ELSE 0,
                             kind |-> r.kind, size |-> r.size]
            /\ pending' = IF create_ok /\ prep.ok THEN "none" ELSE pending
    /\ UNCHANGED <<cnx_state, local_error, remote_error, closure,
                   svars, evars, nvars, ivars>>

InitCnx ==
    /\ overflow_checks = FALSE
    /\ StreamInit /\ EngineInit /\ NewInit /\ HandleInit /\ IterInit
    /\ cnx_state \in {"client_init", "server_init"}

NextCnx ==
    \/ EngineReady
    \/ ConnectionClose
    \/ EngineDisconnect
    \/ EngineError
    \/ EngineQueue
    \/ CallError
    \/ CallClosure
    \/ CallPrepare

SpecCnx == InitCnx /\ [][NextCnx]_vars

(***************************************************************************)
(* SpecIter: ConnectionIter against one engine context.  The engine works  *)
(* on its list before ConnectionIter::new and between two calls of next(), *)
(* never inside ConnectionIter::new.                                       *)
(* SpecRace: the engine also reorders its list inside ConnectionIter::new, *)
(* between two steps of the walk.                                          *)
(***************************************************************************)

\* the walk pushes the pointer and forgets to move on from the head
MutWalkSkipsSecond(list, cur, v) ==
    [vec |-> Append(v, cur),
     current |-> IF cur = picoquic_get_first_cnx(list)
                    /\ picoquic_get_next_cnx(list, cur) # NULL
                 THEN picoquic_get_next_cnx(list, picoquic_get_next_cnx(list, cur))
                 ELSE picoquic_get_next_cnx(list, cur)]

\* one turn of the loop of ConnectionIter::new: vec.push(current);
\* current = picoquic_get_next_cnx(current)
WalkPush(list, cur, v) ==
    [vec |-> Append(v, cur), current |-> picoquic_get_next_cnx(list, cur)]

\* next() follows the engine's list instead of the vector
MutNextReadsEngine(v, pos) ==
    IF pos < Len(cnx_list)
    THEN [some |-> TRUE, item |-> cnx_list[pos + 1], pos |-> pos + 1]
    ELSE [some |-> FALSE, item |-> NULL, pos |-> pos]

\* ConnectionIter::next: the next entry of the vector as a Connection, or None
ConnectionIter_next(v, pos) ==
    IF pos < Len(v)
    THEN [some |-> TRUE, item |-> v[pos + 1], pos |-> pos + 1]
    ELSE [some |-> FALSE, item |-> NULL, pos |-> pos]

\* the engine accepts or creates a connection
EngineCreate ==
    /\ pc # "walking"
    /\ allocated < MaxAlloc
    /\ cnx_list' = Insert(cnx_list, allocated + 1)
    /\ allocated' = allocated + 1
    /\ UNCHANGED <<svars, nvars, hvars, ivars>>

\* a connection is deleted
EngineDelete ==
    /\ pc # "walking"
    /\ \E cnx \in Range(cnx_list) : cnx_list' = Unlink(cnx_list, cnx)
    /\ UNCHANGED <<allocated, svars, nvars, hvars, ivars>>

\* the engine moves a connection it worked on to the head of its list
EngineReorder ==
    /\ pc # "walking"
    /\ \E i \in 2..Len(cnx_list) : cnx_list' = MoveToHead(cnx_list, i)
    /\ UNCHANGED <<allocated, svars, nvars, hvars, ivars>>

\* the same, between two steps of the walk of ConnectionIter::new
RaceReorder ==
    /\ pc = "walking"
    /\ \E i \in 2..Len(cnx_list) : cnx_list' = MoveToHead(cnx_list, i)
    /\ disturbed' = TRUE
    /\ UNCHANGED <<allocated, svars, nvars, hvars,
                   pc, current, vec, iter_pos, yielded, ended, list_at_start>>

\* ConnectionIter::new, up to the loop
WalkStart ==
    /\ pc = "idle"
    /\ pc' = "walking"
    /\ vec' = <<>>
    /\ current' = picoquic_get_first_cnx(cnx_list)
    /\ list_at_start' = cnx_list
    /\ disturbed' = FALSE
    /\ UNCHANGED <<iter_pos, yielded, ended, svars, evars, nvars, hvars>>

\* one turn of the loop.  A walk that has pushed more entries than the engine
\* holds connections is not followed further.
WalkStep ==
    /\ pc = "walking"
    /\ current # NULL
    /\ Len(vec) <= Len(list_at_start)
    /\ LET r == WalkPush(cnx_list, current, vec)
       IN  vec' = r.vec /\ current' = r.current
    /\ UNCHANGED <<pc, iter_pos, yielded, ended, list_at_start, disturbed,
                   svars, evars, nvars, hvars>>

\* the loop ends at null and the vector becomes the iterator
WalkEnd ==
    /\ pc = "walking"
    /\ current = NULL
    /\ pc' = "iterating"
    /\ iter_pos' = 0
    /\ yielded' = <<>>
    /\ ended' = FALSE
    /\ UNCHANGED <<current, vec, list_at_start, disturbed,
                   svars, evars, nvars, hvars>>

\* a call of next() on the iterator
IterNext ==
    /\ pc = "iterating"
    /\ ~ended
    /\ LET r == ConnectionIter_next(vec, iter_pos)
       IN  /\ iter_pos' = r.pos
           /\ yielded' = IF r.some THEN Append(yielded, r.item) ELSE yielded
           /\ ended' = ~r.some
    /\ UNCHANGED <<pc, current, vec, list_at_start, disturbed,
                   svars, evars, nvars, hvars>>

InitIter ==
    /\ overflow_checks = FALSE
    /\ StreamInit /\ EngineInit /\ NewInit /\ HandleInit /\ IterInit
    /\ cnx_state = "client_init"

NextIter ==
    \/ EngineCreate
    \/ EngineDelete
    \/ EngineReorder
    \/ WalkStart
    \/ WalkStep
    \/ WalkEnd
    \/ IterNext

SpecIter == InitIter /\ [][NextIter]_vars

NextRace ==
    \/ EngineCreate
    \/ EngineReorder
    \/ RaceReorder
    \/ WalkStart
    \/ WalkStep
    \/ WalkEnd

SpecRace == InitIter /\ [][NextRace]_vars

(***************************************************************************)
(* The claims.                                                             *)
(***************************************************************************)

IsPermutation(s, t) ==
    /\ Len(s) = Len(t)
    /\ Range(s) = Range(t)
    /\ Cardinality(Range(s)) = Len(s)

\* C1, as stated: ConnectionIter::new over N live connections yields exactly N
\* entries and the same set of connections as the engine's list, also when the
\* engine reorders its list while the first/next walk is in progress
C1_SnapshotDespiteReorderInWalk ==
    pc = "iterating" => IsPermutation(vec, list_at_start)

\* C1, amended: when the engine does not reorder its list inside
\* ConnectionIter::new, the walk ends with exactly the engine's N connections
\* in the engine's order, and reordering the list afterwards changes nothing
C1_SnapshotOfUndisturbedWalk ==
    /\ (pc = "walking" /\ ~disturbed) =>
          /\ Len(vec) <= Len(list_at_start)
          /\ vec = SubSeq(list_at_start, 1, Len(vec))
          /\ (current = NULL <=> Len(vec) = Len(list_at_start))
    /\ (pc = "iterating" /\ ~disturbed) =>
          /\ vec = list_at_start
          /\ IsPermutation(vec, list_at_start)

\* three connections walked without disturbance, and the engine's list
\* reordered after ConnectionIter::new returned
C1_Witness ==
    /\ pc = "iterating"
    /\ ~disturbed
    /\ Len(vec) = 3
    /\ allocated = 3
    /\ cnx_list # vec
    /\ Range(cnx_list) = Range(vec)

\* C2: after ConnectionIter::new has returned, next() yields the handles
\* captured at snapshot time, each once, in capture order, and then ends,
\* whatever the engine creates, deletes or reorders in between
C2_SnapshotImmutable ==
    pc = "iterating" =>
        /\ vec = list_at_start
        /\ iter_pos = Len(yielded)
        /\ Len(yielded) <= Len(list_at_start)
        /\ yielded = SubSeq(list_at_start, 1, Len(yielded))
        /\ (ended => yielded = list_at_start)

\* the iterator has ended after two handles; one of them was deleted after the
\* snapshot, a connection created after the snapshot was never yielded
C2_Witness ==
    /\ pc = "iterating"
    /\ ended
    /\ Len(yielded) = 2
    /\ \E c \in Range(yielded) : c \notin Range(cnx_list)
    /\ \E c \in Range(cnx_list) : c \notin Range(yielded)

Returned(c) == c.made /\ ~c.panicked

SameArgs(a, b) ==
    a.next_id = b.next_id /\ a.is_client = b.is_client /\ a.stype = b.stype

\* C3: two calls that return the same id have the same counter, role and
\* directionality
C3_Injective ==
    (Returned(call) /\ Returned(prev) /\ call.id = prev.id) => SameArgs(call, prev)

\* C4: no call returns one of the reserved ids 0, 1, 2, 3
C4_NeverReserved ==
    Returned(call) => ~(call.id \subseteq {0, 1})

\* C5: error() is None iff both codes are 0, else a classifier seeded with the
\* local code when that is non-zero and with the remote code otherwise; the
\* classifier yields TLSHandshakeError exactly for the recognized code, Unknown
\* for every other, whatever the engine has reported since
C5_ErrorClassification ==
    LET seed == IF closure.local # 0 THEN closure.local ELSE closure.remote
    IN  /\ closure.some <=> ~(closure.local = 0 /\ closure.remote = 0)
        /\ closure.some => closure.error_code = seed
        /\ last_call.op = "closure" =>
              last_call.produced =
                  IF seed = PICOQUIC_TLS_HANDSHAKE_FAILED
                  THEN "TLSHandshakeError" ELSE "Unknown"

\* error() was called with the recognized local code and another remote code,
\* the engine changed the local code afterwards, and the classifier was invoked
C5_Witness ==
    /\ last_call.op = "closure"
    /\ closure.local = PICOQUIC_TLS_HANDSHAKE_FAILED
    /\ closure.remote = 1
    /\ local_error = 1
    /\ last_call.produced = "TLSHandshakeError"

\* C6: is_ready() and is_disconnected() are never both true; is_ready() is true
\* exactly in the two ready states, is_disconnected() exactly in the
\* disconnected state
C6_ReadyDisconnectedExclusive ==
    /\ ~(is_ready(cnx_state) /\ is_disconnected(cnx_state))
    /\ is_ready(cnx_state) <=> cnx_state \in {"client_ready", "server_ready"}
    /\ is_disconnected(cnx_state) <=> cnx_state = "disconnected"

\* a server connection whose handshake has completed
C6_Witness ==
    /\ cnx_state = "server_ready"
    /\ is_ready(cnx_state)
    /\ ~is_disconnected(cnx_state)

\* C7: create_and_prepare_packet returns an error exactly when Packet::create
\* or Packet::prepare fails; when both succeed it returns None with nothing
\* pending and Some(length), length > 0, with an acknowledgement or stream data
\* pending; Some exactly when the packet contains data
C7_PreparePacket ==
    last_call.op = "prepare" =>
        LET ok == last_call.create_ok /\ last_call.prepare_ok
        IN  /\ last_call.kind = "Err" <=> ~ok
            /\ (ok /\ last_call.pending = "none") => last_call.kind = "None"
            /\ (ok /\ last_call.pending # "none") =>
                  (last_call.kind = "Some" /\ last_call.size > 0)
            /\ last_call.kind = "Some" <=> (ok /\ last_call.written > 0)
            /\ last_call.kind = "Some" => last_call.size = last_call.written

\* a tick with nothing pending that returned None
C7_Witness ==
    /\ last_call.op = "prepare"
    /\ last_call.pending = "none"
    /\ last_call.kind = "None"
    /\ cnx_state = "client_ready"

\* C8: Connection::new with an unspecified address panics with "server address
\* must not be unspecified!" before the engine is asked to create anything
C8_UnspecifiedPanics ==
    (new_call.made /\ is_unspecified(new_call.server_addr.ip)) =>
        /\ new_call.outcome = "panic"
        /\ new_call.kind = "server address must not be unspecified!"
        /\ new_call.create_calls = 0
        /\ cnx_list = new_call.list_before

\* the IPv6 unspecified address, against an engine that holds a connection and
\* could have created another
C8_Witness ==
    /\ new_call.made
    /\ new_call.server_addr = [ip |-> <<0, 0, 0, 0, 0, 0, 0, 0>>, port |-> 12345]
    /\ new_call.outcome = "panic"
    /\ new_call.engine_ret # NULL
    /\ cnx_list # <<>>

\* C9: Connection::new with a specified address asks the engine to create
\* once; a null gives an Unknown error, anything else a handle on exactly the
\* object the engine returned
C9_CreateOnce ==
    (new_call.made /\ ~is_unspecified(new_call.server_addr.ip)) =>
        /\ new_call.create_calls = 1
        /\ new_call.engine_ret = NULL =>
              (new_call.outcome = "Err" /\ new_call.kind = "Unknown")
        /\ new_call.engine_ret # NULL =>
              (new_call.outcome = "Ok" /\ new_call.cnx = new_call.engine_ret)

\* the engine returned null although it could still allocate
C9_Witness ==
    /\ new_call.made
    /\ new_call.outcome = "Err"
    /\ new_call.engine_ret = NULL
    /\ allocated < MaxAlloc
    /\ ~is_unspecified(new_call.server_addr.ip)

\* the vectors of the tests client_bidirectional_stream_id_generation, ...:
\* for the counters 0..MaxCounter the id is 4 * (n + 1) + role + direction
StreamIdTestVectors ==
    (call.made /\ call.next_id \subseteq 0..(SmallBits - 4)) =>
        /\ ~call.panicked
        /\ ToNat(call.id) = 4 * (ToNat(call.next_id) + 1)
                              + (IF call.is_client THEN 0 ELSE 1)
                              + (IF call.stype = "Unidirectional" THEN 2 ELSE 0)

\* two calls with different roles or directions never return the same id
DistinctCombinationsNeverCollide ==
    (Returned(call) /\ Returned(prev) /\ call.id = prev.id) =>
        (call.is_client = prev.is_client /\ call.stype = prev.stype)

\* C10: every call returns 4 * (n + 1) + (0 client | 1 server) + (0 bidi | 2 uni)
C10_Formula ==
    call.made =>
        /\ ~call.panicked
        /\ call.id = ExactId(call.next_id, call.is_client, call.stype)
=============================================================================
